---- MODULE Spec2Model ----
(***************************************************************************)
(* State-machine model of the nft_minter program                           *)
(* (src/programs/nft_minter/src/lib.rs).                                   *)
(*                                                                         *)
(* The committed ledger state is held in config, lamports and units.  A    *)
(* mint is a chain of cross-program invocations; it is modelled one        *)
(* invocation per step on a working copy (tx) of the accounts the          *)
(* instruction was handed, which is stored back only when the handler      *)
(* returns Ok(()).  Every `?` of the handler is an early return that       *)
(* drops the working copy.  The instruction declares config `mut`, so the  *)
(* ledger runs no other instruction of this program while one is in        *)
(* flight: the other entry points are enabled only when tx is idle.        *)
(* A mint may also be submitted while another instruction is in flight:    *)
(* it waits in the slot other until the ledger dispatches it, which the    *)
(* ledger does only once the write lock on the Config is free.             *)
(* paid is the history of the program's payments: what the successful      *)
(* mints were charged and what the successful withdraws took out.          *)
(***************************************************************************)
EXTENDS Integers, Sequences, FiniteSets, TLC

VARIABLES config, lamports, units, tx, last, paid, other

vars == <<config, lamports, units, tx, last, paid, other>>

(***************************************************************************)
(* Bounds of the model.                                                    *)
(***************************************************************************)
\* mints are attempted only while a run has created fewer units than this
MaxMints == 2

\* Rent::get()?.minimum_balance(len): two years of rent for len bytes plus
\* the 128 bytes of account overhead, at 3480 lamports per byte-year
minimum_balance(len) == (128 + len) * 3480 * 2

(***************************************************************************)
(* Identities and inputs.                                                  *)
(***************************************************************************)
NoKey == "none"

Users == {"alice", "bob"}

\* Pubkey arguments offered to initialize as master_mint
MasterMints == {"master_m", "master_x"}

\* Pubkey::find_program_address(&[label], program_id), as the seeds
\* constraints of the account structs compute it
find_program_address(label) ==
    CASE label = "config" -> "config_pda"
      [] label = "payment_vault" -> "payment_vault_pda"

\* accounts a caller may pass to a mint in the master_mint slot (with the
\* master_metadata and master_edition that belong to it): the slot is an
\* unchecked AccountInfo
MasterAccountInputs == MasterMints

\* accounts a caller may pass in the payment_vault slot
VaultInputs == {find_program_address("payment_vault"), "other_account"}

\* accounts holding native currency that the model tracks
Holders == Users \cup VaultInputs

\* Option<u64>: None is the empty sequence, Some(x) is <<x>>
None == <<>>

Some(x) == <<x>>

\* Option<u64> values offered to update_pricing as new_regular_price and as
\* new_discounted_price
RegularPriceInputs == {None, Some(300000000)}

DiscountedPriceInputs == {None, Some(1)}

\* u64 amounts offered to withdraw, around the vault balance bal
WithdrawAmounts(bal) ==
    {a \in {100000000, bal - 1, bal, bal + 1} : a >= 0}

\* what a collaborator charges the payer for the record it creates: the
\* rent-exempt minimum of a record of the collaborator's size (the model
\* offers the 165 bytes of a token holding account)
CollaboratorRents == {minimum_balance(165)}

\* balances the callers hold before the program is first used
StartLamports ==
    [h \in Holders |->
        CASE h = "alice" -> 1000000000
          [] h = "bob" -> 205000000
          [] OTHER -> 0]

(***************************************************************************)
(* Program constants.                                                      *)
(***************************************************************************)
\* config.mint_price = 200_000_000
DefaultMintPrice == 200000000

\* config.discounted_price = 100_000_000
DefaultDiscountedPrice == 100000000

\* space = 8 + Config::INIT_SPACE: discriminator, 3 Pubkeys, 3 u64
ConfigSpace == 8 + (32 + 32 + 8 + 8 + 8 + 32)

\* the size passed to create_account for the edition mint
MintLen == 82

\* u64::MAX for total_minted.  The model keeps the counter 31 bits wide,
\* 2^31 - 1 standing for 2^64 - 1; the arithmetic on it is that of the u64:
\* the successor of the largest value is 0
U64_MAX == 2147483647

(***************************************************************************)
(* The ledger runtime as the program uses it.                              *)
(***************************************************************************)
\* after an instruction every touched data-less account is either empty or
\* holds at least the rent-exempt minimum
rent_state_ok(balance) == balance = 0 \/ balance >= minimum_balance(0)

\* system_instruction::transfer: the debit side's precondition
can_pay(bal, from, amount) == bal[from] >= amount

\* a transfer that debits the payer and credits nobody
system_transfer_no_credit(bal, from, to, amount) ==
    [bal EXCEPT ![from] = @ - amount]

\* system_instruction::transfer(from, to, amount) on the balances bal
system_transfer(bal, from, to, amount) ==
    IF from = to
    THEN bal
    ELSE [bal EXCEPT ![from] = @ - amount, ![to] = @ + amount]

\* a payment to an account outside Holders (a freshly created record)
pay_out(bal, from, amount) == [bal EXCEPT ![from] = @ - amount]

(***************************************************************************)
(* The Config account.                                                     *)
(***************************************************************************)
NoConfig ==
    [exists |-> FALSE, authority |-> NoKey, master_mint |-> NoKey,
     mint_price |-> 0, discounted_price |-> 0, total_minted |-> 0,
     payment_vault |-> NoKey]

\* the two default prices assigned to each other's field
initialize_body_swapped(authority, master_mint, payment_vault) ==
    [exists |-> TRUE, authority |-> authority, master_mint |-> master_mint,
     mint_price |-> DefaultDiscountedPrice,
     discounted_price |-> DefaultMintPrice,
     total_minted |-> 0, payment_vault |-> payment_vault]

\* body of initialize: the six assignments to the new Config
initialize_body(authority, master_mint, payment_vault) ==
    [exists |-> TRUE, authority |-> authority, master_mint |-> master_mint,
     mint_price |-> DefaultMintPrice,
     discounted_price |-> DefaultDiscountedPrice,
     total_minted |-> 0, payment_vault |-> payment_vault]

\* an accounts struct without has_one = authority
has_one_authority_unchecked(cfg, key) == TRUE

\* has_one = authority: the Config's authority field equals the key of the
\* account passed (and signing) as authority
has_one_authority(cfg, key) == cfg.authority = key

\* a payment_vault slot without the seeds constraint
seeds_payment_vault_unchecked(key) == TRUE

\* seeds = [b"payment_vault"], bump: the account passed is the derived one
seeds_payment_vault(key) == key = find_program_address("payment_vault")

\* an update that writes 0 where the argument is None
update_pricing_body_or_zero(cfg, new_regular_price, new_discounted_price) ==
    [cfg EXCEPT
        !.mint_price = IF new_regular_price # None
                       THEN new_regular_price[1] ELSE 0,
        !.discounted_price = IF new_discounted_price # None
                             THEN new_discounted_price[1] ELSE 0]

\* body of update_pricing: each Some overwrites its field
update_pricing_body(cfg, new_regular_price, new_discounted_price) ==
    LET c1 == IF new_regular_price # None
              THEN [cfg EXCEPT !.mint_price = new_regular_price[1]]
              ELSE cfg
    IN  IF new_discounted_price # None
        THEN [c1 EXCEPT !.discounted_price = new_discounted_price[1]]
        ELSE c1

\* the two branches of the price selection exchanged
select_price_swapped(cfg, is_discounted) ==
    IF is_discounted THEN cfg.mint_price ELSE cfg.discounted_price

\* the price selected by mint_nft_internal
select_price(cfg, is_discounted) ==
    IF is_discounted THEN cfg.discounted_price ELSE cfg.mint_price

\* a counter raised by two per mint
increment_total_minted_twice(cfg) == [cfg EXCEPT !.total_minted = @ + 2]

\* an increment that also stores the discounted price as the regular one
increment_total_minted_and_reprice(cfg) ==
    [cfg EXCEPT !.total_minted = @ + 1, !.mint_price = cfg.discounted_price]

\* config.total_minted += 1, as a build without overflow checks computes
\* it: modulo 2^64
increment_total_minted(cfg) ==
    [cfg EXCEPT !.total_minted = IF @ = U64_MAX THEN 0 ELSE @ + 1]

(***************************************************************************)
(* Results of completed instructions.                                      *)
(***************************************************************************)
IdleTx == [pc |-> "idle"]

\* the payment history before any mint or withdraw
NothingPaid == [charged |-> 0, withdrawn |-> 0]

\* the record of the instruction that completed last: its entry point and
\* what it returned
Completed(op, err) == [op |-> op, err |-> err]

\* no instruction of this program is in flight: the write lock that the
\* `mut` Config of MintEdition makes the ledger hold is free
Idle == tx.pc = "idle"

\* the transaction t has loaded its accounts and has not ended
InFlight(t) == t.pc \notin {"idle", "submitted"}

\* a ledger that hands the Config to a second mint while a first holds it
config_write_lock_ignored == TRUE

\* the write lock on the Config, which a transaction naming it `mut` must
\* take before it loads it, can be taken
config_write_lock_free == Idle

(***************************************************************************)
(* initialize                                                              *)
(***************************************************************************)
\* an Initialize struct that accepts an existing Config (init_if_needed)
initialize_result_if_needed(caller, vault) ==
    CASE ~can_pay(lamports, caller, minimum_balance(ConfigSpace)) ->
            "ResultWithNegativeLamports"
      [] ~seeds_payment_vault(vault) -> "ConstraintSeeds"
      [] ~rent_state_ok(lamports[caller] - minimum_balance(ConfigSpace)) ->
            "InsufficientFundsForRent"
      [] OTHER -> "Ok"

\* the outcome of the Initialize accounts struct and handler
initialize_result(caller, vault) ==
    CASE config.exists -> "AccountAlreadyInUse"
      [] ~can_pay(lamports, caller, minimum_balance(ConfigSpace)) ->
            "ResultWithNegativeLamports"
      [] ~seeds_payment_vault(vault) -> "ConstraintSeeds"
      [] ~rent_state_ok(lamports[caller] - minimum_balance(ConfigSpace)) ->
            "InsufficientFundsForRent"
      [] OTHER -> "Ok"

initialize(caller, master_mint, vault) ==
    /\ Idle
    /\ LET err == initialize_result(caller, vault)
       IN  /\ last' = Completed("initialize", err)
           /\ IF err = "Ok"
              THEN /\ config' = initialize_body(caller, master_mint, vault)
                   /\ lamports' = pay_out(lamports, caller,
                                          minimum_balance(ConfigSpace))
              ELSE UNCHANGED <<config, lamports>>
    /\ UNCHANGED <<units, tx, paid, other>>

(***************************************************************************)
(* update_pricing                                                          *)
(***************************************************************************)
\* an UpdateConfig struct whose config is not required to be a Config account
update_pricing_result_any_account(caller) ==
    CASE ~has_one_authority(config, caller) -> "ConstraintHasOne"
      [] OTHER -> "Ok"

\* the outcome of the UpdateConfig accounts struct and handler
update_pricing_result(caller) ==
    CASE ~config.exists -> "AccountNotInitialized"
      [] ~has_one_authority(config, caller) -> "ConstraintHasOne"
      [] OTHER -> "Ok"

update_pricing(caller, new_regular_price, new_discounted_price) ==
    /\ Idle
    /\ LET err == update_pricing_result(caller)
       IN  /\ last' = Completed("update_pricing", err)
           /\ config' = IF err = "Ok"
                        THEN update_pricing_body(config, new_regular_price,
                                                 new_discounted_price)
                        ELSE config
    /\ UNCHANGED <<lamports, units, tx, paid, other>>

(***************************************************************************)
(* withdraw                                                                *)
(***************************************************************************)
\* a transfer with the from and to accounts exchanged
withdraw_body_reversed(bal, vault, authority, amount) ==
    system_transfer(bal, authority, vault, amount)

\* invoke_signed(transfer(payment_vault, authority, amount)) on bal
withdraw_body(bal, vault, authority, amount) ==
    system_transfer(bal, vault, authority, amount)

\* a handler that drops the Result of invoke_signed instead of returning it
withdraw_result_ignoring_transfer(caller, vault, amount) ==
    CASE ~config.exists -> "AccountNotInitialized"
      [] ~has_one_authority(config, caller) -> "ConstraintHasOne"
      [] ~seeds_payment_vault(vault) -> "ConstraintSeeds"
      [] OTHER -> "Ok"

\* the outcome of the Withdraw accounts struct and handler
withdraw_result(caller, vault, amount) ==
    CASE ~config.exists -> "AccountNotInitialized"
      [] ~has_one_authority(config, caller) -> "ConstraintHasOne"
      [] ~seeds_payment_vault(vault) -> "ConstraintSeeds"
      [] ~can_pay(lamports, vault, amount) -> "ResultWithNegativeLamports"
      [] \E h \in {vault, caller} :
            ~rent_state_ok(withdraw_body(lamports, vault, caller, amount)[h])
            -> "InsufficientFundsForRent"
      [] OTHER -> "Ok"

withdraw(caller, vault, amount) ==
    /\ Idle
    /\ LET err == withdraw_result(caller, vault, amount)
       IN  /\ last' = Completed("withdraw", err)
           /\ lamports' = IF err = "Ok"
                          THEN withdraw_body(lamports, vault, caller, amount)
                          ELSE lamports
           /\ paid' = IF err = "Ok"
                      THEN [paid EXCEPT !.withdrawn = @ + amount]
                      ELSE paid
    /\ UNCHANGED <<config, units, tx, other>>

(***************************************************************************)
(* mint_edition / mint_discounted: mint_nft_internal, one step per         *)
(* cross-program invocation, on the working copy tx.                       *)
(***************************************************************************)
\* digits of n in base ten, most significant first, as `{}` formats a u64
RECURSIVE decimal(_)
decimal(n) ==
    LET digit == <<"0", "1", "2", "3", "4", "5", "6", "7", "8", "9">>
    IN  IF n < 10
        THEN <<digit[n + 1]>>
        ELSE Append(decimal(n \div 10), digit[(n % 10) + 1])

\* format!("AMMo Founder #{}", edition_number), one character per element
format_name(edition_number) ==
    <<"A", "M", "M", "o", " ", "F", "o", "u", "n", "d", "e", "r", " ", "#">>
        \o decimal(edition_number)

\* the records of a unit before any of them is created; each field holds
\* what the program's invocations ask the token and metadata programs to
\* write
EmptyUnit ==
    [mint_authority |-> NoKey, freeze_authority |-> NoKey, decimals |-> 0,
     supply |-> 0, token_owner |-> NoKey, token_amount |-> 0,
     name |-> <<>>, symbol |-> "", seller_fee_basis_points |-> 0,
     creator |-> NoKey, creator_verified |-> FALSE, creator_share |-> 0,
     collection_verified |-> FALSE, collection_key |-> NoKey,
     update_authority |-> NoKey, is_mutable |-> FALSE, max_supply |-> None]

\* a failure that still stores the Config the handler had written to
rollback_keeps_counter(committed, working) ==
    [committed EXCEPT !.config = working.config]

\* a failure that still stores the balances the handler had moved
rollback_keeps_payment(committed, working) ==
    [committed EXCEPT !.lamports = working.lamports]

\* what a failed instruction leaves behind: the state as it was committed
\* before it, whatever the working copy had become
rollback(committed, working) == committed

\* a success that stores the Config and the unit but not the balances
commit_without_balances(committed, working) ==
    [working EXCEPT !.lamports = committed.lamports]

\* what a handler that returned Ok(()) leaves behind: its working copy
commit(committed, working) == working

Ledger == [config |-> config, lamports |-> lamports, units |-> units]

Working == [config |-> tx.config, lamports |-> tx.lamports,
            units |-> Append(units, tx.unit)]

\* the instruction ends with err: its effects are dropped
Abort(err) ==
    /\ tx' = IdleTx
    /\ last' = Completed(tx.op, err)
    /\ UNCHANGED <<paid, other>>
    /\ LET after == rollback(Ledger, Working)
       IN  /\ config' = after.config
           /\ lamports' = after.lamports
           /\ units' = after.units

\* the working copy moves on to the next invocation
Advance(next_tx) ==
    /\ tx' = next_tx
    /\ UNCHANGED <<config, lamports, units, last, paid, other>>

\* the MintEdition accounts struct, then the price selection, for a mint
\* that has the Config; raced tells whether the mint was submitted while
\* another was in flight
load_accounts(op, minter, vault, master_mint, is_discounted, raced) ==
    LET err == CASE ~config.exists -> "AccountNotInitialized"
                 [] ~seeds_payment_vault(vault) -> "ConstraintSeeds"
                 [] OTHER -> "Ok"
    IN  IF err = "Ok"
        THEN Advance([pc |-> "transfer", op |-> op, minter |-> minter,
                      payment_vault |-> vault,
                      master_mint |-> master_mint,
                      is_discounted |-> is_discounted,
                      price |-> select_price(config, is_discounted),
                      edition_number |-> 0, config |-> config,
                      lamports |-> lamports, unit |-> EmptyUnit,
                      raced |-> raced])
        ELSE /\ tx' = IdleTx
             /\ last' = Completed(op, err)
             /\ UNCHANGED <<config, lamports, units, paid, other>>

\* a mint submitted while no instruction is in flight: it starts at once
mint_entry(op, minter, vault, master_mint, is_discounted) ==
    /\ Idle
    /\ Len(units) < MaxMints
    /\ load_accounts(op, minter, vault, master_mint, is_discounted, FALSE)

mint_edition(minter, vault, master_mint) ==
    mint_entry("mint_edition", minter, vault, master_mint, FALSE)

mint_discounted(minter, vault, master_mint) ==
    mint_entry("mint_discounted", minter, vault, master_mint, TRUE)

\* a mint_edition (is_discounted FALSE) or mint_discounted transaction is
\* submitted while another mint is in flight; it has loaded nothing yet
\* (a mint submitted while nothing is in flight is mint_entry)
submit_mint(minter, vault, master_mint, is_discounted) ==
    /\ InFlight(tx)
    /\ other.pc = "idle"
    /\ Len(units) < MaxMints
    /\ other' = [pc |-> "submitted",
                 op |-> IF is_discounted
                        THEN "mint_discounted" ELSE "mint_edition",
                 minter |-> minter, payment_vault |-> vault,
                 master_mint |-> master_mint,
                 is_discounted |-> is_discounted,
                 raced |-> InFlight(tx)]
    /\ UNCHANGED <<config, lamports, units, tx, last, paid>>

\* the ledger turns to the other transaction, which it may do when that
\* one can take the write lock on the Config
dispatch ==
    /\ other.pc # "idle"
    /\ config_write_lock_free
    /\ tx' = other
    /\ other' = tx
    /\ UNCHANGED <<config, lamports, units, last, paid>>

\* the dispatched mint loads its accounts
mint_entry_dispatched ==
    /\ tx.pc = "submitted"
    /\ load_accounts(tx.op, tx.minter, tx.payment_vault, tx.master_mint,
                     tx.is_discounted, tx.raced)

\* invoke(transfer(minter, payment_vault, price))?
transfer_payment ==
    /\ tx.pc = "transfer"
    /\ IF can_pay(tx.lamports, tx.minter, tx.price)
       THEN Advance([tx EXCEPT
                !.pc = "increment",
                !.lamports = system_transfer(tx.lamports, tx.minter,
                                tx.payment_vault, tx.price)])
       ELSE Abort("ResultWithNegativeLamports")

\* config.total_minted += 1; let edition_number = config.total_minted
\* `+=` on a u64 that holds u64::MAX panics in a build with overflow checks
\* and wraps in a build without; the source does not fix which
increment_counter(overflow_checks) ==
    /\ tx.pc = "increment"
    /\ IF overflow_checks /\ tx.config.total_minted = U64_MAX
       THEN Abort("ProgramFailedToComplete")
       ELSE LET cfg == increment_total_minted(tx.config)
            IN  Advance([tx EXCEPT !.pc = "create_mint", !.config = cfg,
                                   !.edition_number = cfg.total_minted])

\* invoke(create_account(minter, edition_mint, mint_rent, 82, token))?
create_mint_account(accepted) ==
    /\ tx.pc = "create_mint"
    /\ IF ~accepted
       THEN Abort("CollaboratorError")
       ELSE IF ~can_pay(tx.lamports, tx.minter, minimum_balance(MintLen))
       THEN Abort("ResultWithNegativeLamports")
       ELSE Advance([tx EXCEPT
                !.pc = "init_mint",
                !.lamports = pay_out(tx.lamports, tx.minter,
                                     minimum_balance(MintLen))])

\* a mint initialised with the program's Config address as its authorities
initialize_mint_program_owned(accepted) ==
    /\ tx.pc = "init_mint"
    /\ IF ~accepted
       THEN Abort("CollaboratorError")
       ELSE Advance([tx EXCEPT
                !.pc = "create_ata",
                !.unit = [@ EXCEPT
                    !.mint_authority = find_program_address("config"),
                    !.freeze_authority = find_program_address("config"),
                    !.decimals = 0]])

\* invoke(initialize_mint(edition_mint, minter, Some(minter), 0))?
initialize_mint(accepted) ==
    /\ tx.pc = "init_mint"
    /\ IF ~accepted
       THEN Abort("CollaboratorError")
       ELSE Advance([tx EXCEPT
                !.pc = "create_ata",
                !.unit = [@ EXCEPT !.mint_authority = tx.minter,
                                   !.freeze_authority = tx.minter,
                                   !.decimals = 0]])

\* invoke(create_associated_token_account(minter, minter, edition_mint))?
\* the collaborator charges the payer, minter, the rent of the new account
create_associated_token_account(accepted, rent) ==
    /\ tx.pc = "create_ata"
    /\ IF ~accepted
       THEN Abort("CollaboratorError")
       ELSE IF ~can_pay(tx.lamports, tx.minter, rent)
       THEN Abort("ResultWithNegativeLamports")
       ELSE Advance([tx EXCEPT
                !.pc = "mint_to",
                !.lamports = pay_out(tx.lamports, tx.minter, rent),
                !.unit = [@ EXCEPT !.token_owner = tx.minter]])

\* invoke(mint_to(edition_mint, edition_token_account, minter, 1))?
mint_to(accepted) ==
    /\ tx.pc = "mint_to"
    /\ IF ~accepted
       THEN Abort("CollaboratorError")
       ELSE Advance([tx EXCEPT
                !.pc = "metadata",
                !.unit = [@ EXCEPT !.supply = @ + 1,
                                   !.token_amount = @ + 1]])

\* a collection reference that names the master_mint account the caller
\* passed instead of the one stored in the Config
create_metadata_account_passed_key(accepted, rent) ==
    /\ tx.pc = "metadata"
    /\ IF ~accepted
       THEN Abort("CollaboratorError")
       ELSE IF ~can_pay(tx.lamports, tx.minter, rent)
       THEN Abort("ResultWithNegativeLamports")
       ELSE Advance([tx EXCEPT
                !.pc = "edition",
                !.lamports = pay_out(tx.lamports, tx.minter, rent),
                !.unit = [@ EXCEPT
                    !.name = format_name(tx.edition_number),
                    !.symbol = "FAMMo",
                    !.seller_fee_basis_points = 500,
                    !.creator = tx.minter,
                    !.creator_verified = TRUE,
                    !.creator_share = 100,
                    !.collection_verified = FALSE,
                    !.collection_key = tx.master_mint,
                    !.update_authority = tx.minter,
                    !.is_mutable = TRUE]])

\* invoke(CreateMetadataAccountV3 { .. }.instruction(DataV2 { .. }))?
create_metadata_account(accepted, rent) ==
    /\ tx.pc = "metadata"
    /\ IF ~accepted
       THEN Abort("CollaboratorError")
       ELSE IF ~can_pay(tx.lamports, tx.minter, rent)
       THEN Abort("ResultWithNegativeLamports")
       ELSE Advance([tx EXCEPT
                !.pc = "edition",
                !.lamports = pay_out(tx.lamports, tx.minter, rent),
                !.unit = [@ EXCEPT
                    !.name = format_name(tx.edition_number),
                    !.symbol = "FAMMo",
                    !.seller_fee_basis_points = 500,
                    !.creator = tx.minter,
                    !.creator_verified = TRUE,
                    !.creator_share = 100,
                    !.collection_verified = FALSE,
                    !.collection_key = tx.config.master_mint,
                    !.update_authority = tx.minter,
                    !.is_mutable = TRUE]])

\* invoke(CreateMasterEditionV3 { .. }.instruction(max_supply: Some(0)))?
create_master_edition(accepted, rent) ==
    /\ tx.pc = "edition"
    /\ IF ~accepted
       THEN Abort("CollaboratorError")
       ELSE IF ~can_pay(tx.lamports, tx.minter, rent)
       THEN Abort("ResultWithNegativeLamports")
       ELSE Advance([tx EXCEPT
                !.pc = "exit",
                !.lamports = pay_out(tx.lamports, tx.minter, rent),
                !.unit = [@ EXCEPT !.max_supply = Some(0)]])

\* Ok(()): the Config is written back and the instruction's accounts are
\* stored, unless one of the data-less accounts it debited or credited is
\* left with a non-zero balance below the rent-exempt minimum
mint_exit ==
    /\ tx.pc = "exit"
    /\ IF \E h \in {tx.minter, tx.payment_vault} :
            ~rent_state_ok(tx.lamports[h])
       THEN Abort("InsufficientFundsForRent")
       ELSE /\ tx' = IdleTx
            /\ last' = Completed(tx.op, "Ok")
            /\ paid' = [paid EXCEPT !.charged = @ + tx.price]
            /\ other' = other
            /\ LET after == commit(Ledger, Working)
               IN  /\ config' = after.config
                   /\ lamports' = after.lamports
                   /\ units' = after.units

(***************************************************************************)
(* Specification.                                                          *)
(***************************************************************************)
Init ==
    /\ config = NoConfig
    /\ lamports = StartLamports
    /\ units = <<>>
    /\ tx = IdleTx
    /\ last = Completed("none", "Ok")
    /\ paid = NothingPaid
    /\ other = IdleTx

Next ==
    \/ \E c \in Users, m \in MasterMints, v \in VaultInputs :
            initialize(c, m, v)
    \/ \E c \in Users, r \in RegularPriceInputs, d \in DiscountedPriceInputs :
            update_pricing(c, r, d)
    \/ \E c \in Users, v \in VaultInputs :
            \E a \in WithdrawAmounts(lamports[find_program_address("payment_vault")]) :
                withdraw(c, v, a)
    \/ \E c \in Users, v \in VaultInputs, m \in MasterAccountInputs :
            mint_edition(c, v, m)
    \/ \E c \in Users, v \in VaultInputs, m \in MasterAccountInputs :
            mint_discounted(c, v, m)
    \/ transfer_payment
    \/ \E overflow_checks \in BOOLEAN : increment_counter(overflow_checks)
    \/ \E ok \in BOOLEAN : create_mint_account(ok)
    \/ \E ok \in BOOLEAN : initialize_mint(ok)
    \/ \E ok \in BOOLEAN, rent \in CollaboratorRents :
            create_associated_token_account(ok, rent)
    \/ \E ok \in BOOLEAN : mint_to(ok)
    \/ \E ok \in BOOLEAN, rent \in CollaboratorRents :
            create_metadata_account(ok, rent)
    \/ \E ok \in BOOLEAN, rent \in CollaboratorRents :
            create_master_edition(ok, rent)
    \/ mint_exit

Spec == Init /\ [][Next]_vars

\* the program after alice has initialized it
InitActive ==
    /\ config = initialize_body("alice", "master_m",
                                find_program_address("payment_vault"))
    /\ lamports = pay_out(StartLamports, "alice",
                          minimum_balance(ConfigSpace))
    /\ units = <<>>
    /\ tx = IdleTx
    /\ last = Completed("initialize", "Ok")
    /\ paid = NothingPaid
    /\ other = IdleTx

\* every entry point of the program, and mints submitted while another
\* mint is in flight; such a mint passes the stored master_mint in the
\* master_mint slot, which the program does not read
NextConcurrent ==
    \/ \E c \in Users, m \in MasterMints, v \in VaultInputs :
            initialize(c, m, v)
    \/ \E c \in Users, r \in RegularPriceInputs, d \in DiscountedPriceInputs :
            update_pricing(c, r, d)
    \/ \E c \in Users, v \in VaultInputs :
            \E a \in WithdrawAmounts(lamports[find_program_address("payment_vault")]) :
                withdraw(c, v, a)
    \/ \E c \in Users, v \in VaultInputs, m \in MasterAccountInputs :
            mint_edition(c, v, m)
    \/ \E c \in Users, v \in VaultInputs, m \in MasterAccountInputs :
            mint_discounted(c, v, m)
    \/ \E c \in Users, v \in VaultInputs, d \in BOOLEAN :
            submit_mint(c, v, config.master_mint, d)
    \/ dispatch
    \/ mint_entry_dispatched
    \/ transfer_payment
    \/ \E overflow_checks \in BOOLEAN : increment_counter(overflow_checks)
    \/ \E ok \in BOOLEAN : create_mint_account(ok)
    \/ \E ok \in BOOLEAN : initialize_mint(ok)
    \/ \E ok \in BOOLEAN, rent \in CollaboratorRents :
            create_associated_token_account(ok, rent)
    \/ \E ok \in BOOLEAN : mint_to(ok)
    \/ \E ok \in BOOLEAN, rent \in CollaboratorRents :
            create_metadata_account(ok, rent)
    \/ \E ok \in BOOLEAN, rent \in CollaboratorRents :
            create_master_edition(ok, rent)
    \/ mint_exit

SpecConcurrent == InitActive /\ [][NextConcurrent]_vars

\* total_minted values next to the largest the counter can hold
NearMaxCounts == {U64_MAX - 1, U64_MAX}

\* the program after alice has initialized it and all but the last one or
\* none of the 2^64 - 1 sequence numbers have been given out; units lists
\* the units created from here on
InitNearMax ==
    /\ \E n \in NearMaxCounts :
            config = [initialize_body("alice", "master_m",
                                      find_program_address("payment_vault"))
                        EXCEPT !.total_minted = n]
    /\ lamports = pay_out(StartLamports, "alice",
                          minimum_balance(ConfigSpace))
    /\ units = <<>>
    /\ tx = IdleTx
    /\ last = Completed("none", "Ok")
    /\ paid = NothingPaid
    /\ other = IdleTx

SpecNearMax == InitNearMax /\ [][Next]_vars

(***************************************************************************)
(* Vocabulary of the properties.                                           *)
(***************************************************************************)
Vault == find_program_address("payment_vault")

MintOps == {"mint_edition", "mint_discounted"}

\* the error taxonomy: the kind under which each error of the program and
\* of the runtime is reported
ErrorKind(err) ==
    CASE err \in {"AccountNotInitialized", "AccountAlreadyInUse"} ->
            "InvalidState"
      [] err = "ConstraintHasOne" -> "Authorization"
      [] err \in {"ResultWithNegativeLamports", "InsufficientFundsForRent"} ->
            "InsufficientFunds"
      [] err = "CollaboratorError" -> "CollaboratorFailure"
      [] err = "ConstraintSeeds" -> "AddressMismatch"
      [] err = "ProgramFailedToComplete" -> "ArithmeticOverflow"
      [] OTHER -> "None"

\* the number a display name ends in, read back digit by digit
RECURSIVE digits_value(_)
digits_value(ds) ==
    IF ds = <<>>
    THEN 0
    ELSE LET d == ds[Len(ds)]
             v == CASE d = "0" -> 0 [] d = "1" -> 1 [] d = "2" -> 2
                    [] d = "3" -> 3 [] d = "4" -> 4 [] d = "5" -> 5
                    [] d = "6" -> 6 [] d = "7" -> 7 [] d = "8" -> 8
                    [] d = "9" -> 9
         IN  10 * digits_value(SubSeq(ds, 1, Len(ds) - 1)) + v

NamePrefix ==
    <<"A", "M", "M", "o", " ", "F", "o", "u", "n", "d", "e", "r", " ", "#">>

\* this step ends a mint whose handler returned Ok(())
MintSucceeds == tx.pc = "exit" /\ tx'.pc = "idle" /\ last'.err = "Ok"

\* this step ends a mint that had begun its invocations, with an error
MintFails == tx.pc # "idle" /\ tx'.pc = "idle" /\ last'.err # "Ok"

\* this step ends an instruction, of any entry point, with an error
InstructionFails == tx'.pc = "idle" /\ last'.err # "Ok"

LedgerUnchanged == UNCHANGED <<config, lamports, units>>

(***************************************************************************)
(* C1.  After exactly N successful mints (units holds one record per       *)
(* successful mint, in order) total_minted equals N, and the record of     *)
(* the Nth successful mint carries the display name "AMMo Founder #N".     *)
(***************************************************************************)
C1_SequentialNumbering ==
    /\ config.total_minted = Len(units)
    /\ \A n \in 1..Len(units) :
        /\ Len(units[n].name) > Len(NamePrefix)
        /\ SubSeq(units[n].name, 1, Len(NamePrefix)) = NamePrefix
        /\ digits_value(SubSeq(units[n].name, Len(NamePrefix) + 1,
                               Len(units[n].name))) = n

C1_Witness ==
    /\ Len(units) = 2
    /\ config.total_minted = 2
    /\ units[2].name = NamePrefix \o <<"2">>
    /\ last.op \in MintOps /\ last.err = "Ok"

(***************************************************************************)
(* C2.  total_minted never decreases: every step leaves it unchanged or    *)
(* raises it by exactly 1, it is raised only by the step that ends a mint  *)
(* with Ok, every such step raises it, and no step that ends an            *)
(* instruction with an error changes it.                                   *)
(***************************************************************************)
C2_CounterMonotonic ==
    [][/\ config'.total_minted \in
            {config.total_minted, config.total_minted + 1}
       /\ (config'.total_minted = config.total_minted + 1) <=> MintSucceeds
       /\ InstructionFails => config'.total_minted = config.total_minted
      ]_vars

C2_Witness ==
    /\ config.total_minted = 1
    /\ last.op \in MintOps
    /\ last.err = "CollaboratorError"

(***************************************************************************)
(* C3.  A mint is all-or-nothing.  A mint that fails at any step after it  *)
(* began leaves the committed state (Config, balances of caller and        *)
(* treasury, unit records) as it was; and while a mint is in flight the    *)
(* committed state does not move and no other instruction completes.       *)
(***************************************************************************)
C3_MintAtomic ==
    [][/\ MintFails => LedgerUnchanged
       /\ (tx.pc # "idle" /\ tx'.pc # "idle") =>
            /\ LedgerUnchanged
            /\ last' = last
            /\ tx'.op = tx.op /\ tx'.minter = tx.minter
       /\ (tx.pc # "idle" /\ tx'.pc = "idle") => last'.op = tx.op
       /\ (tx.pc = "idle" /\ tx'.pc = "idle" /\ last'.op \in MintOps
            /\ last'.err # "Ok") => LedgerUnchanged
      ]_vars

\* a mint that failed at its very end, after the payment and every record
C3_Witness ==
    /\ tx.pc = "idle"
    /\ last.op = "mint_discounted"
    /\ last.err = "InsufficientFundsForRent"
    /\ units = <<>>
    /\ lamports[Vault] = 0

(***************************************************************************)
(* C4.  update_pricing and withdraw signed by anyone but the authority     *)
(* stored in the Config fail with an authorization error and leave the     *)
(* Config, every balance and every unit unchanged.                         *)
(***************************************************************************)
C4_NonAuthorityRejected ==
    [][\A c \in Users :
        (config.exists /\ c # config.authority) =>
            /\ \A r \in RegularPriceInputs, d \in DiscountedPriceInputs :
                update_pricing(c, r, d) =>
                    /\ ErrorKind(last'.err) = "Authorization"
                    /\ LedgerUnchanged
            /\ \A v \in VaultInputs, a \in WithdrawAmounts(lamports[Vault]) :
                withdraw(c, v, a) =>
                    /\ ErrorKind(last'.err) = "Authorization"
                    /\ LedgerUnchanged
      ]_vars

C4_Witness ==
    /\ last.op = "withdraw"
    /\ last.err = "ConstraintHasOne"
    /\ lamports[Vault] >= DefaultMintPrice

(***************************************************************************)
(* C5.  As claimed: a successful mint_edition at mint_price = P lowers     *)
(* the caller's balance by exactly P and raises the treasury's by exactly  *)
(* P, and a failing mint leaves both balances unchanged.                   *)
(***************************************************************************)
C5_CallerDebitedExactlyPrice ==
    [][/\ (MintSucceeds /\ tx.op = "mint_edition") =>
            /\ lamports[tx.minter] - lamports'[tx.minter] = config.mint_price
            /\ lamports'[Vault] - lamports[Vault] = config.mint_price
       /\ MintFails => lamports' = lamports
      ]_vars

(***************************************************************************)
(* C5, amended.  A successful mint_edition at mint_price = P raises the    *)
(* treasury's balance by exactly P and lowers the caller's by P plus the   *)
(* rent of the records created for the unit: minimum_balance(82) for the   *)
(* mint account and what the three collaborator invocations charge the     *)
(* payer.  A failing mint leaves both balances unchanged.                  *)
(***************************************************************************)
C5_PaymentPlusRent ==
    [][/\ (MintSucceeds /\ tx.op = "mint_edition") =>
            /\ lamports'[Vault] - lamports[Vault] = config.mint_price
            /\ \E a \in CollaboratorRents, b \in CollaboratorRents,
                  c \in CollaboratorRents :
                lamports[tx.minter] - lamports'[tx.minter] =
                    config.mint_price + minimum_balance(MintLen) + a + b + c
       /\ MintFails => lamports' = lamports
       /\ (tx.pc = "idle" /\ tx'.pc = "idle" /\ last'.op \in MintOps) =>
            lamports' = lamports
      ]_vars

C5_Witness ==
    /\ last.op = "mint_edition" /\ last.err = "Ok"
    /\ Len(units) = 1
    /\ lamports[Vault] = DefaultMintPrice
    /\ \E u \in Users :
        StartLamports[u] - lamports[u] > DefaultMintPrice

(***************************************************************************)
(* C6.  initialize on a Config that already exists, by any caller and      *)
(* with any master_mint, fails with InvalidState and leaves every field    *)
(* of the Config (authority, prices, total_minted) and every balance       *)
(* unchanged.                                                              *)
(***************************************************************************)
C6_SecondInitializeRejected ==
    [][\A c \in Users, m \in MasterMints, v \in VaultInputs :
        (config.exists /\ initialize(c, m, v)) =>
            /\ ErrorKind(last'.err) = "InvalidState"
            /\ LedgerUnchanged
      ]_vars

C6_Witness ==
    /\ last.op = "initialize"
    /\ last.err = "AccountAlreadyInUse"
    /\ config.total_minted > 0
    /\ config.mint_price # DefaultMintPrice

(***************************************************************************)
(* C7.  A successful initialize(master_mint) signed by c starts from the   *)
(* absent Config and yields authority = c, master_mint = the argument,     *)
(* mint_price = 200_000_000, discounted_price = 100_000_000,               *)
(* total_minted = 0 and payment_vault = the address derived from           *)
(* "payment_vault".                                                        *)
(***************************************************************************)
C7_InitializeDefaults ==
    [][\A c \in Users, m \in MasterMints, v \in VaultInputs :
        (initialize(c, m, v) /\ last'.err = "Ok") =>
            /\ ~config.exists
            /\ config' = [exists |-> TRUE, authority |-> c,
                          master_mint |-> m, mint_price |-> 200000000,
                          discounted_price |-> 100000000, total_minted |-> 0,
                          payment_vault |-> "payment_vault_pda"]
      ]_vars

C7_Witness ==
    /\ last.op = "initialize" /\ last.err = "Ok"
    /\ config.exists
    /\ config.authority = "bob"
    /\ config.master_mint = "master_x"

(***************************************************************************)
(* C8.  The price a successful mint pays into the treasury is the          *)
(* Config's discounted_price for mint_discounted and its mint_price for    *)
(* mint_edition, as they stand when the mint runs, whoever the caller is.  *)
(***************************************************************************)
C8_PriceByEntryPoint ==
    [][MintSucceeds =>
        /\ tx.op = "mint_discounted" =>
            lamports'[Vault] - lamports[Vault] = config.discounted_price
        /\ tx.op = "mint_edition" =>
            lamports'[Vault] - lamports[Vault] = config.mint_price
      ]_vars

\* a caller who is not the authority mints at the discounted price after
\* the regular price was raised
C8_Witness ==
    /\ last.op = "mint_discounted" /\ last.err = "Ok"
    /\ Len(units) = 1
    /\ units[1].token_owner # config.authority
    /\ config.mint_price = 300000000
    /\ lamports[Vault] = DefaultDiscountedPrice

(***************************************************************************)
(* C9.  update_pricing(r, d) signed by the authority succeeds, also with   *)
(* both arguments None; a successful update_pricing(r, d) is signed by     *)
(* the authority, sets mint_price to r when r is Some and                  *)
(* discounted_price to d when d is Some, and changes nothing else: an      *)
(* omitted price keeps its value, the other Config fields, the balances    *)
(* and the units are untouched.                                            *)
(***************************************************************************)
C9_UpdatePricingFrame ==
    [][\A c \in Users, r \in RegularPriceInputs,
          d \in DiscountedPriceInputs :
        /\ (update_pricing(c, r, d) /\ config.exists
                /\ c = config.authority) => last'.err = "Ok"
        /\ (update_pricing(c, r, d) /\ last'.err = "Ok") =>
            /\ c = config.authority
            /\ config' =
                [config EXCEPT
                    !.mint_price = IF r = None THEN @ ELSE r[1],
                    !.discounted_price = IF d = None THEN @ ELSE d[1]]
            /\ (r = None /\ d = None) => config' = config
            /\ UNCHANGED <<lamports, units>>
      ]_vars

\* only the regular price was supplied: the discounted price kept its value
C9_Witness ==
    /\ last.op = "update_pricing" /\ last.err = "Ok"
    /\ config.mint_price = 300000000
    /\ config.discounted_price = DefaultDiscountedPrice
    /\ config.total_minted = 1

(***************************************************************************)
(* C10.  As claimed: withdraw(amount) by the authority fails with          *)
(* InsufficientFunds and changes nothing when amount exceeds the treasury  *)
(* balance or would take a funded treasury below the rent-exempt minimum;  *)
(* and the treasury balance is never negative.                             *)
(***************************************************************************)
C10_BelowMinimumRejected ==
    /\ [](lamports[Vault] >= 0)
    /\ [][\A c \in Users, a \in WithdrawAmounts(lamports[Vault]) :
            (/\ withdraw(c, Vault, a)
             /\ config.exists /\ c = config.authority
             /\ \/ a > lamports[Vault]
                \/ /\ lamports[Vault] >= minimum_balance(0)
                   /\ lamports[Vault] - a < minimum_balance(0)) =>
                /\ ErrorKind(last'.err) = "InsufficientFunds"
                /\ LedgerUnchanged
         ]_vars

(***************************************************************************)
(* C10, amended.  withdraw(amount) by the authority fails with             *)
(* InsufficientFunds and changes nothing when amount exceeds the treasury  *)
(* balance, or when it would leave the treasury a non-zero balance below   *)
(* the rent-exempt minimum; a withdrawal of the whole balance succeeds     *)
(* and leaves the treasury empty; the treasury balance is never negative.  *)
(***************************************************************************)
C10_OverdrawRejected ==
    /\ [](lamports[Vault] >= 0)
    /\ [][\A c \in Users, a \in WithdrawAmounts(lamports[Vault]) :
            (/\ withdraw(c, Vault, a)
             /\ config.exists /\ c = config.authority) =>
                /\ (\/ a > lamports[Vault]
                    \/ /\ lamports[Vault] - a > 0
                       /\ lamports[Vault] - a < minimum_balance(0)) =>
                        /\ ErrorKind(last'.err) = "InsufficientFunds"
                        /\ LedgerUnchanged
                /\ a = lamports[Vault] =>
                        /\ last'.err = "Ok"
                        /\ lamports'[Vault] = 0
                        /\ lamports'[c] = lamports[c] + a
         ]_vars

\* the authority asked for one lamport more than the treasury holds
C10_Witness ==
    /\ last.op = "withdraw"
    /\ last.err = "ResultWithNegativeLamports"
    /\ lamports[Vault] > 0

(***************************************************************************)
(* C11.  While the Config does not exist, mint_edition, mint_discounted,   *)
(* update_pricing and withdraw each fail with an error of the              *)
(* invalid-state kind (the Config account is not initialized) and change   *)
(* nothing: the Config stays absent, no balance moves, no unit is created  *)
(* and no mint is left in flight.                                          *)
(***************************************************************************)
C11_RequiresActive ==
    [][~config.exists =>
        \A c \in Users, v \in VaultInputs, m \in MasterAccountInputs :
        \A r \in RegularPriceInputs, d \in DiscountedPriceInputs :
        \A a \in WithdrawAmounts(lamports[Vault]) :
            (\/ mint_edition(c, v, m)
             \/ mint_discounted(c, v, m)
             \/ update_pricing(c, r, d)
             \/ withdraw(c, v, a))
            => /\ ErrorKind(last'.err) = "InvalidState"
               /\ LedgerUnchanged
               /\ config' = NoConfig
               /\ tx' = IdleTx]_vars

\* a withdraw was refused because the Config had not been created
C11_Witness ==
    /\ ~config.exists
    /\ last.op = "withdraw"
    /\ last.err = "AccountNotInitialized"
    /\ tx = IdleTx
    /\ lamports = StartLamports

(***************************************************************************)
(* C12.  The authority is set exactly once, by the initialize that         *)
(* creates the Config, to the caller of that initialize; once the Config   *)
(* exists no step of any instruction, a repeated initialize included,      *)
(* changes the stored authority or removes the Config.                     *)
(***************************************************************************)
C12_AuthorityImmutable ==
    [][/\ config.exists =>
            /\ config'.exists
            /\ config'.authority = config.authority
       /\ (~config.exists /\ config'.exists) =>
            /\ config.authority = NoKey
            /\ \E c \in Users, m \in MasterMints, v \in VaultInputs :
                /\ initialize(c, m, v)
                /\ config'.authority = c]_vars

\* bob created the Config, a mint went through, and a later initialize was
\* refused: bob is still the authority
C12_Witness ==
    /\ config.exists
    /\ config.authority = "bob"
    /\ config.total_minted >= 1
    /\ last.op = "initialize"
    /\ last.err = "AccountAlreadyInUse"

(***************************************************************************)
(* C13.  Two mints submitted concurrently, the second while the first is   *)
(* in flight, behave as if executed in some total order: they are never    *)
(* in flight together, and a mint in flight works on the Config and the    *)
(* treasury balance as the last completed instruction left them (no two    *)
(* mints read the same counter).  Each successful mint raises              *)
(* total_minted by exactly 1, names its unit after the new count and       *)
(* credits the treasury with exactly its price.  So no increment and no    *)
(* payment is lost: total_minted is the number of successful mints, their  *)
(* sequence numbers are distinct and consecutive, and the treasury holds   *)
(* the sum of the prices of the successful mints less what was withdrawn.  *)
(***************************************************************************)
C13_MintsSerialised ==
    /\ [](InFlight(tx) =>
            LET counted == IF tx.pc \in {"transfer", "increment"} THEN 0 ELSE 1
                credited == IF tx.pc = "transfer" THEN 0 ELSE tx.price
            IN  /\ tx.config = [config EXCEPT !.total_minted = @ + counted]
                /\ tx.lamports[Vault] = lamports[Vault] + credited
                /\ tx.edition_number = counted * (config.total_minted + 1))
    /\ [][MintSucceeds =>
            /\ config'.total_minted = config.total_minted + 1
            /\ Len(units') = Len(units) + 1
            /\ units'[Len(units')].name = format_name(config.total_minted + 1)
            /\ lamports'[Vault] = lamports[Vault] + tx.price]_vars
    /\ [](/\ config.total_minted = Len(units)
          /\ \A i, j \in 1..Len(units) :
                i < j => /\ units[i].name # units[j].name
                         /\ units[j].name = format_name(j)
          /\ lamports[Vault] - StartLamports[Vault]
                = paid.charged - paid.withdrawn)
    /\ [](~(InFlight(tx) /\ InFlight(other)))

\* bob's mint was submitted while alice's was in flight; alice's has
\* succeeded as number 1 and bob's, run after it, has reached its end as
\* number 2 with the treasury credited with both prices
C13_Witness ==
    /\ tx.pc = "exit"
    /\ tx.raced
    /\ tx.minter = "bob"
    /\ tx.edition_number = 2
    /\ tx.unit.name = format_name(2)
    /\ tx.config.total_minted = 2
    /\ \A h \in {tx.minter, tx.payment_vault} : rent_state_ok(tx.lamports[h])
    /\ Len(units) = 1
    /\ units[1].token_owner = "alice"
    /\ units[1].name = format_name(1)
    /\ paid = [charged |-> DefaultMintPrice, withdrawn |-> 0]
    /\ tx.lamports[Vault] = DefaultMintPrice + tx.price

(***************************************************************************)
(* C14.  A successful withdraw(amount) is called by the stored authority   *)
(* with the derived treasury account; it lowers the treasury balance by    *)
(* exactly amount, raises the authority's balance by exactly amount,       *)
(* moves no other balance and leaves the Config and the units unchanged.   *)
(***************************************************************************)
C14_WithdrawExact ==
    [][last'.op = "withdraw" =>
        \A c \in Users, v \in VaultInputs :
        \A a \in WithdrawAmounts(lamports[Vault]) :
            (withdraw(c, v, a) /\ last'.err = "Ok")
            => /\ c = config.authority
               /\ v = config.payment_vault
               /\ lamports'[Vault] = lamports[Vault] - a
               /\ lamports'[config.authority] = lamports[config.authority] + a
               /\ \A h \in Holders \ {Vault, config.authority} :
                    lamports'[h] = lamports[h]
               /\ config' = config
               /\ units' = units]_vars

\* the authority has taken part of the treasury: some of it is gone, some
\* is still there
C14_Witness ==
    /\ last.op = "withdraw"
    /\ last.err = "Ok"
    /\ Len(units) = 1
    /\ units[1].token_owner # config.authority
    /\ lamports[Vault] = DefaultMintPrice - 100000000
    /\ lamports[config.authority] =
            StartLamports[config.authority]
                - minimum_balance(ConfigSpace) + 100000000

(***************************************************************************)
(* C15.  A mint begun by caller A runs with A as its minter, and when it   *)
(* succeeds it adds exactly one unit: the mint is initialised with A as    *)
(* mint authority and freeze authority and 0 decimals, exactly 1 token is  *)
(* issued, into the token account owned by A, the metadata names A as      *)
(* update authority, and the edition cap is Some(0), no further copies.    *)
(* The units created earlier stay as they are, and no step other than a    *)
(* successful mint changes the units at all.                               *)
(***************************************************************************)
C15_UnitOwnedByCaller ==
    [][/\ tx.pc = "idle" =>
            \A c \in Users, v \in VaultInputs, m \in MasterAccountInputs :
                ((mint_edition(c, v, m) \/ mint_discounted(c, v, m))
                    /\ tx'.pc # "idle")
                => tx'.minter = c
       /\ MintSucceeds =>
            /\ Len(units') = Len(units) + 1
            /\ SubSeq(units', 1, Len(units)) = units
            /\ LET u == units'[Len(units')]
               IN  /\ u.supply = 1
                   /\ u.token_amount = 1
                   /\ u.decimals = 0
                   /\ u.token_owner = tx.minter
                   /\ u.mint_authority = tx.minter
                   /\ u.freeze_authority = tx.minter
                   /\ u.update_authority = tx.minter
                   /\ u.max_supply = Some(0)
       /\ ~MintSucceeds => units' = units]_vars

\* bob, who is not the authority, holds the first unit and alice the
\* second; bob's is as it was created
C15_Witness ==
    /\ Len(units) = 2
    /\ config.authority = "alice"
    /\ units[1].token_owner = "bob"
    /\ units[1].mint_authority = "bob"
    /\ units[1].freeze_authority = "bob"
    /\ units[1].update_authority = "bob"
    /\ units[1].supply = 1
    /\ units[1].max_supply = Some(0)
    /\ units[2].token_owner = "alice"
    /\ last.op = "withdraw"

(***************************************************************************)
(* C16.  The master_mint stored by initialize never changes while the      *)
(* Config exists.  Whether a mint is admitted does not depend on the       *)
(* master_mint account the caller passes, which is compared with nothing;  *)
(* and the collection reference of every unit is unverified and names the  *)
(* master_mint stored in the Config, whatever account was passed.          *)
(***************************************************************************)
C16_CollectionIsStoredMaster ==
    /\ [][/\ config.exists => config'.master_mint = config.master_mint
          /\ tx.pc = "idle" =>
                \A c \in Users, v \in VaultInputs :
                \A m1, m2 \in MasterAccountInputs :
                    /\ mint_edition(c, v, m1) =>
                            \/ tx'.pc = "idle"
                            \/ ENABLED (/\ mint_edition(c, v, m2)
                                        /\ tx'.pc # "idle")
                    /\ mint_discounted(c, v, m1) =>
                            \/ tx'.pc = "idle"
                            \/ ENABLED (/\ mint_discounted(c, v, m2)
                                        /\ tx'.pc # "idle")
          /\ MintSucceeds =>
                LET u == units'[Len(units')]
                IN  /\ u.collection_verified = FALSE
                    /\ u.collection_key = config.master_mint]_vars
    /\ [](\A n \in 1..Len(units) :
            /\ units[n].collection_verified = FALSE
            /\ units[n].collection_key = config.master_mint)

\* a mint handed a master_mint account other than the stored one is about
\* to end successfully; its unit names the stored master_mint
C16_Witness ==
    /\ tx.pc = "exit"
    /\ tx.master_mint # config.master_mint
    /\ tx.unit.collection_key = config.master_mint
    /\ tx.unit.collection_verified = FALSE
    /\ \A h \in {tx.minter, tx.payment_vault} : rent_state_ok(tx.lamports[h])
    /\ Len(units) = 1
    /\ units[1].collection_key = config.master_mint

(***************************************************************************)
(* C17.  The sequence number never wraps or collides: the stored counter   *)
(* never goes down, a mint succeeds only from a counter below the largest  *)
(* u64 and leaves it exactly one higher, the unit of a successful mint     *)
(* bears a name no earlier unit bears, and a mint that reaches the         *)
(* increment with the counter at the largest u64 fails there and leaves    *)
(* the ledger unchanged.                                                   *)
(***************************************************************************)
C17_SequenceNeverWraps ==
    [][/\ config'.total_minted >= config.total_minted
       /\ MintSucceeds =>
            /\ config.total_minted < U64_MAX
            /\ config'.total_minted - 1 = config.total_minted
            /\ \A n \in 1..Len(units) :
                    units[n].name # units'[Len(units')].name
       /\ (tx.pc = "increment" /\ tx.config.total_minted = U64_MAX) =>
            /\ tx'.pc = "idle"
            /\ ErrorKind(last'.err) = "ArithmeticOverflow"
            /\ LedgerUnchanged]_vars

(***************************************************************************)
(* C18.  Treasury conservation.  In every state what the treasury holds    *)
(* beyond its starting balance equals the sum of the prices charged by     *)
(* the successful mints minus the sum of the amounts of the successful     *)
(* withdraws.  The treasury balance goes down only in a successful         *)
(* withdraw called by the stored authority with the derived treasury       *)
(* account; initialize, update_pricing and the mints never lower it.       *)
(***************************************************************************)
C18_TreasuryConservation ==
    /\ [](lamports[Vault] - StartLamports[Vault]
            = paid.charged - paid.withdrawn)
    /\ [][lamports'[Vault] < lamports[Vault] =>
            /\ last'.op = "withdraw"
            /\ last'.err = "Ok"
            /\ \E a \in WithdrawAmounts(lamports[Vault]) :
                /\ withdraw(config.authority, Vault, a)
                /\ lamports'[Vault] = lamports[Vault] - a]_vars
    /\ [][last'.op \in MintOps \cup {"initialize", "update_pricing"} =>
            lamports'[Vault] >= lamports[Vault]]_vars

\* two mints were charged, at different prices, and two withdraws took
\* money out; the treasury holds the difference
C18_Witness ==
    /\ tx.pc = "idle"
    /\ Len(units) = 2
    /\ paid.charged = DefaultMintPrice + DefaultDiscountedPrice
    /\ paid.withdrawn = 2 * 100000000
    /\ lamports[Vault] = DefaultMintPrice + DefaultDiscountedPrice
                            - 2 * 100000000
    /\ last.op = "withdraw"
    /\ last.err = "Ok"

(***************************************************************************)
(* C19.  While the Config exists its payment_vault field is the address    *)
(* derived from the seed "payment_vault", and a mint in flight pays into   *)
(* exactly that account.  A mint_edition, mint_discounted or withdraw      *)
(* that passes any other account in the payment_vault slot is rejected     *)
(* (a mint with the address-mismatch error of the seeds constraint) and    *)
(* changes nothing.                                                        *)
(***************************************************************************)
C19_DerivedTreasuryOnly ==
    /\ [](config.exists =>
            config.payment_vault = find_program_address("payment_vault"))
    /\ [](tx.pc # "idle" =>
            /\ tx.payment_vault = find_program_address("payment_vault")
            /\ tx.payment_vault = config.payment_vault)
    /\ [][(config.exists /\ tx.pc = "idle") =>
            \A c \in Users :
            \A v \in VaultInputs \ {find_program_address("payment_vault")} :
                /\ \A m \in MasterAccountInputs :
                    (mint_edition(c, v, m) \/ mint_discounted(c, v, m)) =>
                        /\ ErrorKind(last'.err) = "AddressMismatch"
                        /\ LedgerUnchanged
                        /\ tx' = IdleTx
                /\ \A a \in WithdrawAmounts(lamports[Vault]) :
                    withdraw(c, v, a) =>
                        /\ last'.err # "Ok"
                        /\ c = config.authority =>
                                ErrorKind(last'.err) = "AddressMismatch"
                        /\ LedgerUnchanged
                        /\ tx' = IdleTx]_vars

\* with money in the treasury, a mint that passed another account in the
\* payment_vault slot was refused
C19_Witness ==
    /\ config.exists
    /\ config.payment_vault = find_program_address("payment_vault")
    /\ lamports[Vault] > 0
    /\ last.op = "mint_edition"
    /\ last.err = "ConstraintSeeds"
    /\ tx = IdleTx

(***************************************************************************)
(* C20.  A successful mint, through either entry point and by any caller,  *)
(* changes no field of the Config other than total_minted: mint_price,     *)
(* discounted_price, authority, master_mint and payment_vault are after    *)
(* the mint what they were before it.                                      *)
(***************************************************************************)
C20_MintFrame ==
    [][MintSucceeds =>
        /\ tx.op \in MintOps
        /\ config'.total_minted # config.total_minted
        /\ config'.exists = config.exists
        /\ config'.mint_price = config.mint_price
        /\ config'.discounted_price = config.discounted_price
        /\ config'.authority = config.authority
        /\ config'.master_mint = config.master_mint
        /\ config'.payment_vault = config.payment_vault]_vars

\* after the authority changed both prices, a standard mint and then a
\* discounted mint by the other caller succeeded; the prices, the authority
\* and the treasury address are still those stored before
C20_Witness ==
    /\ Len(units) = 2
    /\ last.op = "mint_discounted"
    /\ last.err = "Ok"
    /\ units[2].token_owner # config.authority
    /\ config.mint_price = 300000000
    /\ config.discounted_price = 1
    /\ paid.charged = 300000000 + 1
    /\ config.payment_vault = Vault

====
